---------------------------- MODULE Spec2Model ----------------------------
(***************************************************************************)
(* ShadowScanner: chi-square LSB steganalysis (steganalysisService.ts)     *)
(* and the upload/analyse handlers of the React component (App.tsx).       *)
(*                                                                         *)
(* Numbers.  JavaScript numbers are IEEE doubles.  Here a number is a      *)
(* decimal fixed-point value with nine fractional digits, i.e. the integer *)
(* n stands for n / 10^9.  The five coefficients and p of erf have nine    *)
(* (seven) decimals, so they are represented exactly.  Products are        *)
(* rounded to the nearest unit, quotients and square roots are rounded     *)
(* down.  The chi-square statistic is a sum of ratios of small integers    *)
(* and is kept as an exact fraction until the square root is taken.        *)
(* All intermediate values stay below 2^31: the operators are defined for  *)
(* arguments of erf of magnitude below ErfDomain / 10^9.                   *)
(***************************************************************************)
EXTENDS Integers, Sequences, FiniteSets

VARIABLES
  \* one call of analyzeLSB followed by the classification of its result
  pixelData, observedFrequencies, totalPairsPerCategory, examined,
  probability, cdfEvaluated, status, pc,
  \* erf and chiSquareCdf applied to one argument
  erfArg, erfOfX, erfOfNegX, cdfOfChi, erfDone,
  \* the classifier applied to one probability
  clsP, clsStatus,
  \* the estimate applied to two histograms over the same totals
  monoTotal, monoObsA, monoObsB, monoProbA, monoProbB,
  \* the state of the App component and its pending callbacks
  selectedFile, imagePreview, isLoading, result, error, readers, runs

coreVars == <<pixelData, observedFrequencies, totalPairsPerCategory, examined,
              probability, cdfEvaluated, status, pc>>
erfVars  == <<erfArg, erfOfX, erfOfNegX, cdfOfChi, erfDone>>
clsVars  == <<clsP, clsStatus>>
monoVars == <<monoTotal, monoObsA, monoObsB, monoProbA, monoProbB>>
appVars  == <<selectedFile, imagePreview, isLoading, result, error, readers,
              runs>>
vars == <<coreVars, erfVars, clsVars, monoVars, appVars>>

(***************************************************************************)
(* Fixed-point arithmetic                                                  *)
(***************************************************************************)
One == 10^9
Limb == 10^3

Abs(a) == IF a < 0 THEN -a ELSE a

\* The product a*b of two non-negative integers below 2^31, as the pair
\* hi, lo with a*b = hi * 10^9 + lo and 0 <= lo < 10^9.
MulParts(a, b) ==
  LET a0 == a % Limb
      a1 == (a \div Limb) % Limb
      a2 == (a \div (Limb * Limb)) % Limb
      a3 == a \div One
      b0 == b % Limb
      b1 == (b \div Limb) % Limb
      b2 == (b \div (Limb * Limb)) % Limb
      b3 == b \div One
      c0 == a0 * b0
      c1 == a0 * b1 + a1 * b0 + (c0 \div Limb)
      c2 == a0 * b2 + a1 * b1 + a2 * b0 + (c1 \div Limb)
      c3 == a0 * b3 + a1 * b2 + a2 * b1 + a3 * b0 + (c2 \div Limb)
      c4 == a1 * b3 + a2 * b2 + a3 * b1
      c5 == a2 * b3 + a3 * b2
      c6 == a3 * b3
  IN  [hi |-> c3 + Limb * c4 + (Limb * Limb) * c5 + One * c6,
       lo |-> (c0 % Limb) + Limb * (c1 % Limb) + (Limb * Limb) * (c2 % Limb)]

\* a * b of two fixed-point numbers, rounded to the nearest unit.
Mul(a, b) ==
  LET m == MulParts(Abs(a), Abs(b))
      r == IF m.lo >= One \div 2 THEN m.hi + 1 ELSE m.hi
  IN  IF (a < 0) = (b < 0) THEN r ELSE -r

\* q, r with n * acc_in = q * b + r summed by additions, never forming a
\* value above b: steps additions of add to acc, modulo b.
RECURSIVE AddMod(_, _, _, _, _)
AddMod(steps, add, b, q, acc) ==
  IF steps = 0 THEN [q |-> q, r |-> acc]
  ELSE IF acc >= b - add
       THEN AddMod(steps - 1, add, b, q + 1, acc - (b - add))
       ELSE AddMod(steps - 1, add, b, q, acc + add)

\* digits more decimal digits of rem / b appended to res.
RECURSIVE DivDigits(_, _, _, _)
DivDigits(digits, rem, b, res) ==
  IF digits = 0 THEN res
  ELSE LET s == AddMod(10, rem, b, 0, 0)
       IN  DivDigits(digits - 1, s.r, b, 10 * res + s.q)

\* The fixed-point value of a / b (a >= 0, b > 0 integers or fixed-point
\* numbers of one scale), rounded down.
Div(a, b) == DivDigits(9, a % b, b, a \div b)

\* Largest r in lo..hi-1 with r * r <= q * 10^9.
RECURSIVE SqrtBisect(_, _, _)
SqrtBisect(q, lo, hi) ==
  IF hi - lo <= 1 THEN lo
  ELSE LET mid == lo + (hi - lo) \div 2
           m   == MulParts(mid, mid)
       IN  IF m.hi < q \/ (m.hi = q /\ m.lo = 0)
           THEN SqrtBisect(q, mid, hi)
           ELSE SqrtBisect(q, lo, mid)

\* Arguments of erf stay below this many units (1.465): the square of a
\* larger value does not fit.
ErfDomain == 1465 * 10^6

\* Math.sqrt of a fixed-point number q < 2.146, rounded down.
Sqrt(q) == SqrtBisect(q, 0, ErfDomain)

\* Sum of the series term - term*r/k + term*r^2/(k(k+1)) - ... with last
\* index ExpTerms.
ExpTerms == 16

RECURSIVE ExpSeries(_, _, _, _)
ExpSeries(r, k, term, sum) ==
  IF k > ExpTerms THEN sum
  ELSE LET next == Mul(term, r) \div k
       IN  ExpSeries(r, k + 1, next,
                     IF k % 2 = 1 THEN sum - next ELSE sum + next)

\* Math.exp(-z) for a fixed-point z >= 0: exp(-z/4)^4.
ExpNeg(z) ==
  LET e1 == ExpSeries(z \div 4, 1, One, One)
      e2 == Mul(e1, e1)
  IN  Mul(e2, e2)

(***************************************************************************)
(* steganalysisService.ts: erf and chiSquareCdf                            *)
(***************************************************************************)
a1 == 254829592
a2 == -284496736
a3 == 1421413741
a4 == -1453152027
a5 == 1061405429
p == 327591100

\* The value y of erf for a given absX (always taken with sign +1).
ErfMagnitude(absX) ==
  LET t    == Div(One, One + Mul(p, absX))
      poly == Mul(Mul(Mul(Mul(a5, t) + a4, t) + a3, t) + a2, t) + a1
  IN  One - Mul(Mul(poly, t), ExpNeg(Mul(absX, absX)))

\* A mutant of erf with the two signs exchanged.
erf_flipped(x) ==
  LET sign == IF x >= 0 THEN -1 ELSE 1
  IN  sign * ErfMagnitude(Abs(x))

\* A mutant of erf that drops the sign.
erf_nosign(x) == ErfMagnitude(Abs(x))

erf(x) ==
  LET sign == IF x >= 0 THEN 1 ELSE -1
      absX == Abs(x)
      y    == ErfMagnitude(absX)
  IN  sign * y

\* A fraction num / den of integers, den > 0.
Frac(num, den) == [num |-> num, den |-> den]

\* chiSquareCdf of the statistic chiSquared given as an exact fraction:
\* chiSquared / 2 is converted to fixed point, then Math.sqrt, then erf.
chiSquareCdf(chiSquared) ==
  IF chiSquared.num < 0 THEN 0
  ELSE erf(Sqrt(Div(chiSquared.num, 2 * chiSquared.den)))

(***************************************************************************)
(* steganalysisService.ts: analyzeLSB                                      *)
(***************************************************************************)
Undefined == 0 - 1

\* new Array(255).fill(0)
CategoryCount == 255
ZeroHistogram == [i \in 0 .. CategoryCount - 1 |-> 0]

\* pixelData.length of a buffer indexed from 0.
Length(buf) == Cardinality(DOMAIN buf)

\* pixelData[j]; reading past the end of a typed array gives undefined,
\* which compares false with every number.
Read(buf, j) == IF j \in DOMAIN buf THEN buf[j] ELSE Undefined

\* A mutant of the loop condition that also visits i = length - 4.
LoopContinues_inclusive(i, len) == i <= len - 4

\* The condition of both for loops: i < pixelData.length - 4.
LoopContinues(i, len) == i < len - 4

\* The increment of both for loops: i += 8.
LoopStep == 8

\* A mutant of the second index that skips one pixel.
PairSecond_skip(i) == i + 8

\* The index of p_i_plus_1 for the pair that starts at i.
PairSecond(i) == i + 4

\* p_i < 255 && p_i > 0
IsInterior(p_i) == p_i < 255 /\ p_i > 0

\* The first loop from index i on: the observed frequencies, and the
\* sequence of index pairs <<i, j>> that the loop has read.
RECURSIVE ObservedLoop(_, _, _, _)
ObservedLoop(buf, i, obs, log) ==
  IF LoopContinues(i, Length(buf))
  THEN LET p_i        == Read(buf, i)
           p_i_plus_1 == Read(buf, PairSecond(i))
           obs2 == IF IsInterior(p_i) /\ p_i_plus_1 > p_i
                   THEN [obs EXCEPT ![p_i] = @ + 1]
                   ELSE obs
       IN  ObservedLoop(buf, i + LoopStep, obs2,
                        Append(log, <<i, PairSecond(i)>>))
  ELSE [observed |-> obs, examined |-> log]

\* The second loop from index i on: the total number of pairs per category.
RECURSIVE TotalLoop(_, _, _)
TotalLoop(buf, i, tot) ==
  IF LoopContinues(i, Length(buf))
  THEN LET p_i == Read(buf, i)
       IN  TotalLoop(buf, i + LoopStep,
                     IF IsInterior(p_i) THEN [tot EXCEPT ![p_i] = @ + 1]
                     ELSE tot)
  ELSE tot

RECURSIVE GCD(_, _)
GCD(m, n) == IF n = 0 THEN m ELSE GCD(n, m % n)

\* x + y of two fractions, in lowest terms.
FracAdd(x, y) ==
  LET num == x.num * y.den + y.num * x.den
      den == x.den * y.den
      g   == GCD(Abs(num), den)
  IN  Frac(num \div g, den \div g)

\* A mutant of the chi-square term: the deviation is not squared.
ChiTerm_linear(observed, totalPairs) ==
  Frac(2 * observed - totalPairs, 2)

\* (diff * diff) / expectedFrequency with expectedFrequency = totalPairs / 2
\* and diff = observed - expectedFrequency, as an exact fraction.
ChiTerm(observed, totalPairs) ==
  Frac((2 * observed - totalPairs) * (2 * observed - totalPairs),
       2 * totalPairs)

\* The third loop, for (let i = 1; i < 255; i++), from index i on: the loop
\* body acts only at the indices j with totalPairs > 0, which are visited in
\* increasing order.
RECURSIVE ChiLoop(_, _, _, _)
ChiLoop(obs, tot, i, chiSquared) ==
  LET rest == {j \in i .. 254 : tot[j] > 0}
  IN  IF rest = {} THEN chiSquared
      ELSE LET j == CHOOSE m \in rest : \A n \in rest : m <= n
           IN  ChiLoop(obs, tot, j + 1,
                       FracAdd(chiSquared, ChiTerm(obs[j], tot[j])))

\* observedFrequencies.filter((_, i) => totalPairsPerCategory[i] > 0).length
DegreesOfFreedom(obs, tot) ==
  Cardinality({i \in DOMAIN obs : tot[i] > 0})

\* A mutant of the estimate that returns the CDF of zero when no category
\* has pairs.
Estimate_nodefault(obs, tot) ==
  LET chiSquared == ChiLoop(obs, tot, 1, Frac(0, 1))
      dof == DegreesOfFreedom(obs, tot)
  IN  IF dof = 0 THEN [probability |-> chiSquareCdf(chiSquared), cdf |-> TRUE]
      ELSE [probability |->
              chiSquareCdf(Frac(chiSquared.num, chiSquared.den * dof)),
            cdf |-> TRUE]

\* Steps 3 and 4 of analyzeLSB: the returned probability, and whether
\* chiSquareCdf was called.
Estimate(obs, tot) ==
  LET chiSquared == ChiLoop(obs, tot, 1, Frac(0, 1))
      dof == DegreesOfFreedom(obs, tot)
  IN  IF dof = 0 THEN [probability |-> 0, cdf |-> FALSE]
      ELSE [probability |->
              chiSquareCdf(Frac(chiSquared.num, chiSquared.den * dof)),
            cdf |-> TRUE]

\* analyzeLSB(imageData) as one function of the buffer.
analyzeLSB(buf) ==
  Estimate(ObservedLoop(buf, 0, ZeroHistogram, <<>>).observed,
           TotalLoop(buf, 0, ZeroHistogram)).probability

(***************************************************************************)
(* App.tsx: the classification in image.onload                             *)
(***************************************************************************)
SuspiciousAbove == 950000000
IndeterminateAbove == 100000000

\* A mutant of the classifier with the boundaries in the upper band.
Classify_closed(prob) ==
  IF prob >= SuspiciousAbove THEN "Suspicious"
  ELSE IF prob >= IndeterminateAbove THEN "Indeterminate"
  ELSE "Clean"

Classify(prob) ==
  IF prob > SuspiciousAbove THEN "Suspicious"
  ELSE IF prob > IndeterminateAbove THEN "Indeterminate"
  ELSE "Clean"

(***************************************************************************)
(* Values of the parts of the state that a specification does not use      *)
(***************************************************************************)
Null == "null"

CoreIdle ==
  /\ pixelData = <<>>
  /\ observedFrequencies = ZeroHistogram
  /\ totalPairsPerCategory = ZeroHistogram
  /\ examined = <<>>
  /\ probability = Undefined
  /\ cdfEvaluated = FALSE
  /\ status = Null
  /\ pc = "idle"

ErfIdle ==
  /\ erfArg = 0
  /\ erfOfX = Undefined
  /\ erfOfNegX = Undefined
  /\ cdfOfChi = Undefined
  /\ erfDone = {}

ClsIdle ==
  /\ clsP = Undefined
  /\ clsStatus = Null

MonoIdle ==
  /\ monoTotal = ZeroHistogram
  /\ monoObsA = ZeroHistogram
  /\ monoObsB = ZeroHistogram
  /\ monoProbA = Undefined
  /\ monoProbB = Undefined

\* useState(null) of a File or of a data URL: files are numbered, and the
\* data URL of a file is identified by the number of the file.
NoFile == Undefined

\* useState<AnalysisResult | null>(null).  The field image is not part of
\* AnalysisResult: it records which file's data URL the analysed image was
\* loaded from.
NoResult == [probability |-> Undefined, message |-> Null, status |-> Null,
             image |-> NoFile]

AppIdle ==
  /\ selectedFile = NoFile
  /\ imagePreview = NoFile
  /\ isLoading = FALSE
  /\ result = NoResult
  /\ error = Null
  /\ readers = <<>>
  /\ runs = <<>>

(***************************************************************************)
(* Spec: analyzeLSB on a pixel buffer, then the classification             *)
(***************************************************************************)
\* Longest buffer, in bytes.
MaxLen == 16

\* Values of the first (red) byte of a pixel, and of the other three.
RedVals  == {0, 1, 254, 255}
FillVals == {7, 255}

\* Number of pixels that have their first byte inside a buffer of len bytes.
RedCount(len) == (len + 3) \div 4

Buffers ==
  UNION { { [i \in 0 .. len - 1 |->
               IF i % 4 = 0 THEN reds[i \div 4] ELSE fill] :
            reds \in [0 .. RedCount(len) - 1 -> RedVals],
            fill \in FillVals } :
          len \in 0 .. MaxLen }

Init ==
  /\ pixelData \in Buffers
  /\ observedFrequencies = ZeroHistogram
  /\ totalPairsPerCategory = ZeroHistogram
  /\ examined = <<>>
  /\ probability = Undefined
  /\ cdfEvaluated = FALSE
  /\ status = Null
  /\ pc = "start"
  /\ ErfIdle /\ ClsIdle /\ MonoIdle /\ AppIdle

\* Step 1, lines 55-72.
CountObserved ==
  /\ pc = "start"
  /\ LET r == ObservedLoop(pixelData, 0, ZeroHistogram, <<>>)
     IN  /\ observedFrequencies' = r.observed
         /\ examined' = r.examined
  /\ pc' = "observed"
  /\ UNCHANGED <<pixelData, totalPairsPerCategory, probability, cdfEvaluated,
                 status>>
  /\ UNCHANGED <<erfVars, clsVars, monoVars, appVars>>

\* Step 2, lines 75-81.
CountTotal ==
  /\ pc = "observed"
  /\ totalPairsPerCategory' = TotalLoop(pixelData, 0, ZeroHistogram)
  /\ pc' = "counted"
  /\ UNCHANGED <<pixelData, observedFrequencies, examined, probability,
                 cdfEvaluated, status>>
  /\ UNCHANGED <<erfVars, clsVars, monoVars, appVars>>

\* Steps 3 and 4 and the return, lines 83-124.
ReturnProbability ==
  /\ pc = "counted"
  /\ LET e == Estimate(observedFrequencies, totalPairsPerCategory)
     IN  /\ probability' = e.probability
         /\ cdfEvaluated' = e.cdf
  /\ pc' = "returned"
  /\ UNCHANGED <<pixelData, observedFrequencies, totalPairsPerCategory,
                 examined, status>>
  /\ UNCHANGED <<erfVars, clsVars, monoVars, appVars>>

\* App.tsx lines 70-84: the status given to the returned probability.
ClassifyResult ==
  /\ pc = "returned"
  /\ status' = Classify(probability)
  /\ pc' = "classified"
  /\ UNCHANGED <<pixelData, observedFrequencies, totalPairsPerCategory,
                 examined, probability, cdfEvaluated>>
  /\ UNCHANGED <<erfVars, clsVars, monoVars, appVars>>

Next == CountObserved \/ CountTotal \/ ReturnProbability \/ ClassifyResult

Spec == Init /\ [][Next]_vars

(***************************************************************************)
(* Properties of analyzeLSB and the classification (under Spec)            *)
(***************************************************************************)
Returned == pc \in {"returned", "classified"}
Counted  == pc \in {"counted", "returned", "classified"}

\* The pair-leading indices of the reference algorithm, with the last index
\* L - 4 included and excluded.
RefIndicesInclusive(buf) ==
  {i \in 0 .. Length(buf) - 4 : i % 8 = 0}
RefIndices(buf) ==
  {i \in 0 .. Length(buf) - 5 : i % 8 = 0}

NoCategoryHasPairs == \A i \in 0 .. 254 : totalPairsPerCategory[i] = 0

\* C3: whenever no category has pairs (an empty buffer, a buffer shorter than
\* 4 bytes, pair-leading bytes all 0 or 255) analyzeLSB returns exactly 0
\* without calling chiSquareCdf, and the result is classified Clean.
C3_DegenerateIsZero ==
  (/\ Returned
   /\ \/ NoCategoryHasPairs
      \/ Length(pixelData) < 4
      \/ \A i \in RefIndices(pixelData) : pixelData[i] \in {0, 255})
  => /\ NoCategoryHasPairs
     /\ probability = 0
     /\ ~cdfEvaluated
     /\ (pc = "classified" => status = "Clean")

\* A buffer with two pairs, both led by 0 or 255, has been analysed.
C3_Witness ==
  /\ pc = "classified"
  /\ Length(pixelData) = 16
  /\ pixelData[0] = 255 /\ pixelData[8] = 0 /\ pixelData[4] = 1
  /\ probability = 0 /\ status = "Clean"

\* C5: for every buffer, of any length, analyzeLSB returns a probability p
\* with 0 <= p <= 1.
C5_ProbabilityInUnitInterval ==
  Returned => (0 <= probability /\ probability <= One)

\* A buffer of a length that is no multiple of 4 got a probability strictly
\* between 0 and 1 from the CDF.
C5_Witness ==
  /\ pc = "classified"
  /\ Length(pixelData) % 4 # 0
  /\ cdfEvaluated
  /\ 0 < probability /\ probability < One

\* The histograms of the reference algorithm over a set of leading indices.
RefTotal(buf, idx, v) == Cardinality({i \in idx : buf[i] = v})
RefGreater(buf, idx, v) ==
  Cardinality({i \in idx : buf[i] = v /\ Read(buf, i + 4) > v})

HistogramsMatch(idx) ==
  /\ \A v \in 1 .. 254 :
       /\ totalPairsPerCategory[v] = RefTotal(pixelData, idx, v)
       /\ observedFrequencies[v] = RefGreater(pixelData, idx, v)
  /\ totalPairsPerCategory[0] = 0
  /\ observedFrequencies[0] = 0

\* C6 as stated: for a buffer whose length L is a multiple of 4 the
\* histograms equal those of the reference algorithm that iterates i from 0
\* to L - 4 (included) in steps of 8.
C6_Original_InclusiveReference ==
  (Counted /\ Length(pixelData) % 4 = 0)
  => HistogramsMatch(RefIndicesInclusive(pixelData))

\* C6 amended: for a buffer whose length L is a multiple of 4 the
\* histograms equal those of the reference algorithm that iterates i over the
\* multiples of 8 with i < L - 4 (so that i + 4 is inside the buffer); pairs
\* led by 0 or 255 change neither histogram.
C6_HistogramsMatchReference ==
  (Counted /\ Length(pixelData) % 4 = 0)
  => HistogramsMatch(RefIndices(pixelData))

\* A three-pixel buffer: the third pixel leads no pair.
C6_Witness ==
  /\ pc = "classified"
  /\ Length(pixelData) = 12
  /\ pixelData[0] = 1 /\ pixelData[4] = 254 /\ pixelData[8] = 254
  /\ totalPairsPerCategory[1] = 1 /\ observedFrequencies[1] = 1
  /\ totalPairsPerCategory[254] = 0

\* The pixel that holds byte index i.
PixelOf(i) == i \div 4

\* C7 as stated: the two members of every examined pair are the first
\* channel of pixel k and of pixel k + 2.
C7_Original_SecondIsTwoPixelsOn ==
  \A n \in 1 .. Len(examined) :
    /\ examined[n][1] % 4 = 0 /\ examined[n][2] % 4 = 0
    /\ PixelOf(examined[n][2]) = PixelOf(examined[n][1]) + 2

\* C7 amended: the two members of every examined pair are the first channel
\* of pixel k and of pixel k + 1, both inside the buffer; the n-th pair
\* starts at pixel 2(n-1), so two pixels lie between the starts of
\* successive pairs and no pixel is in two pairs; and the observed count of
\* a category v is the number of even pixels k of value v whose successor
\* k + 1 has a greater first channel.
C7_SecondIsNextPixel ==
  /\ \A n \in 1 .. Len(examined) :
       /\ examined[n][1] % 4 = 0 /\ examined[n][2] % 4 = 0
       /\ PixelOf(examined[n][1]) = 2 * (n - 1)
       /\ PixelOf(examined[n][2]) = PixelOf(examined[n][1]) + 1
       /\ examined[n][2] \in DOMAIN pixelData
  /\ pc # "start" =>
       /\ Len(examined) = Cardinality(RefIndices(pixelData))
       /\ \A v \in 1 .. 254 :
            observedFrequencies[v] =
              Cardinality({n \in 1 .. Len(examined) :
                             /\ pixelData[4 * (2 * (n - 1))] = v
                             /\ pixelData[4 * (2 * (n - 1) + 1)] > v})

\* Two pairs were examined; in the first the next pixel is greater and the
\* pixel after it is not, and the pair was counted as greater.
C7_Witness ==
  /\ pc = "classified"
  /\ Len(examined) = 2
  /\ pixelData[0] = 1 /\ pixelData[4] = 254 /\ pixelData[8] = 0
  /\ observedFrequencies[1] = 1

\* Every first-channel byte of the buffer equals v.
AllIdentical(buf, v) == \A i \in DOMAIN buf : i % 4 = 0 => buf[i] = v

\* C2 as stated: for an all-identical buffer (value v, 0 < v < 255) with at
\* least one pair, totalPairs[v] is the number of pairs, observedGreater[v]
\* is 0, the probability is at most 0.10 and the status is Clean.
C2_UniformBufferIsClean ==
  \A v \in 1 .. 254 :
    (/\ pc = "classified"
     /\ AllIdentical(pixelData, v)
     /\ Len(examined) >= 1)
    => /\ totalPairsPerCategory[v] = Len(examined)
       /\ observedFrequencies[v] = 0
       /\ probability <= IndeterminateAbove
       /\ status = "Clean"

(***************************************************************************)
(* SpecErf: erf and chiSquareCdf on a grid of arguments                    *)
(***************************************************************************)
\* The arguments of erf are k * XStep for k in -XRange .. XRange.
XRange == 60
XStep == 2 * 10^7

\* The statistic given to chiSquareCdf for the grid index k: |k| / 32.
ChiOfIndex(k) == Frac(Abs(k), 32)

InitErf ==
  /\ erfArg \in -XRange .. XRange
  /\ erfOfX = Undefined
  /\ erfOfNegX = Undefined
  /\ cdfOfChi = Undefined
  /\ erfDone = {}
  /\ CoreIdle /\ ClsIdle /\ MonoIdle /\ AppIdle

\* erf(x) and erf(-x); the argument -0 is 0 and takes the branch x >= 0.
EvalErf ==
  /\ "erf" \notin erfDone
  /\ erfOfX' = erf(erfArg * XStep)
  /\ erfOfNegX' = erf(-(erfArg * XStep))
  /\ erfDone' = erfDone \cup {"erf"}
  /\ UNCHANGED <<erfArg, cdfOfChi>>
  /\ UNCHANGED <<coreVars, clsVars, monoVars, appVars>>

EvalCdf ==
  /\ "cdf" \notin erfDone
  /\ cdfOfChi' = chiSquareCdf(ChiOfIndex(erfArg))
  /\ erfDone' = erfDone \cup {"cdf"}
  /\ UNCHANGED <<erfArg, erfOfX, erfOfNegX>>
  /\ UNCHANGED <<coreVars, clsVars, monoVars, appVars>>

NextErf == EvalErf \/ EvalCdf

SpecErf == InitErf /\ [][NextErf]_vars

\* C8 as stated: erf(0) is exactly 0, erf(-x) = -erf(x) for every x, and a
\* chi-square statistic of exactly 0 maps to probability exactly 0.
C8_Original_OddWithZero ==
  /\ "erf" \in erfDone =>
       /\ erfOfNegX = -erfOfX
       /\ (erfArg = 0 => erfOfX = 0)
  /\ ("cdf" \in erfDone /\ ChiOfIndex(erfArg).num = 0) => cdfOfChi = 0

\* The value of the approximation at 0: 1 - (a1 + a2 + a3 + a4 + a5).
ErfAtZero == One - (a1 + a2 + a3 + a4 + a5)

\* C8 amended: erf(-x) = -erf(x) for every x other than 0; at the origin
\* the approximation is not 0 but the small positive number
\* 1 - (a1+a2+a3+a4+a5), about 1e-9 (inside the error bound 1.5e-7), and
\* erf(-0) = erf(0) has the same sign; consequently a chi-square statistic
\* of exactly 0 maps to that positive probability, which is classified Clean.
C8_OddAwayFromZero ==
  /\ "erf" \in erfDone =>
       /\ (erfArg # 0 => erfOfNegX = -erfOfX)
       /\ (erfArg > 0 => erfOfX > 0)
       /\ (erfArg = 0 =>
             /\ erfOfX = ErfAtZero /\ erfOfNegX = ErfAtZero
             /\ 0 < ErfAtZero /\ ErfAtZero <= 150)
  /\ ("cdf" \in erfDone /\ ChiOfIndex(erfArg).num = 0) =>
       /\ cdfOfChi = ErfAtZero
       /\ Classify(cdfOfChi) = "Clean"

\* erf and chiSquareCdf were evaluated at 0.
C8_Witness ==
  /\ erfDone = {"erf", "cdf"}
  /\ erfArg = 0
  /\ erfOfX > 0 /\ cdfOfChi > 0

(***************************************************************************)
(* SpecClassify: the classifier on probabilities around its cut points     *)
(***************************************************************************)
\* Probabilities within ProbeRadius steps of 0, 0.10, 0.95 and 1, in steps
\* of 1e-9 and of 1e-4.
ProbeRadius == 20

Probes ==
  {x \in {b + k * u : b \in {0, IndeterminateAbove, SuspiciousAbove, One},
                      k \in -ProbeRadius .. ProbeRadius,
                      u \in {1, 10^5}} :
     0 <= x /\ x <= One}

InitClassify ==
  /\ clsP \in Probes
  /\ clsStatus = Null
  /\ CoreIdle /\ ErfIdle /\ MonoIdle /\ AppIdle

ClassifyProbe ==
  /\ clsStatus = Null
  /\ clsStatus' = Classify(clsP)
  /\ UNCHANGED clsP
  /\ UNCHANGED <<coreVars, erfVars, monoVars, appVars>>

NextClassify == ClassifyProbe

SpecClassify == InitClassify /\ [][NextClassify]_vars

\* C1: the classifier assigns exactly one status: Suspicious iff p > 0.95,
\* Indeterminate iff 0.10 < p <= 0.95, Clean iff p <= 0.10; the boundary
\* values 0.95 and 0.10 belong to the lower band.
C1_ClassifierBands ==
  clsStatus # Null =>
    /\ clsStatus \in {"Suspicious", "Indeterminate", "Clean"}
    /\ (clsStatus = "Suspicious" <=> clsP > 95 * 10^7)
    /\ (clsStatus = "Indeterminate" <=>
          (clsP > 10^8 /\ clsP <= 95 * 10^7))
    /\ (clsStatus = "Clean" <=> clsP <= 10^8)
    /\ (clsP = 95 * 10^7 => clsStatus = "Indeterminate")
    /\ (clsP = 10^8 => clsStatus = "Clean")
    /\ (clsP = 9501 * 10^5 => clsStatus = "Suspicious")
    /\ (clsP = 1001 * 10^5 => clsStatus = "Indeterminate")

\* The probability 0.95 itself was classified, as Indeterminate.
C1_Witness ==
  /\ clsP = 95 * 10^7
  /\ clsStatus = "Indeterminate"

(***************************************************************************)
(* SpecMono: the estimate on two histograms over the same totals           *)
(***************************************************************************)
\* Most pairs in one category.
MaxPairs == 3

\* The categories that get pairs.
MonoCats == {1, 254}

Histogram(f) == [i \in 0 .. CategoryCount - 1 |->
                   IF i \in DOMAIN f THEN f[i] ELSE 0]

InitMono ==
  /\ \E t \in [MonoCats -> 0 .. MaxPairs] :
       \E a \in [MonoCats -> 0 .. MaxPairs] :
         \E b \in [MonoCats -> 0 .. MaxPairs] :
           /\ \A c \in MonoCats : a[c] <= t[c] /\ b[c] <= t[c]
           /\ monoTotal = Histogram(t)
           /\ monoObsA = Histogram(a)
           /\ monoObsB = Histogram(b)
  /\ monoProbA = Undefined
  /\ monoProbB = Undefined
  /\ CoreIdle /\ ErfIdle /\ ClsIdle /\ AppIdle

EstimateA ==
  /\ monoProbA = Undefined
  /\ monoProbA' = Estimate(monoObsA, monoTotal).probability
  /\ UNCHANGED <<monoTotal, monoObsA, monoObsB, monoProbB>>
  /\ UNCHANGED <<coreVars, erfVars, clsVars, appVars>>

EstimateB ==
  /\ monoProbA # Undefined
  /\ monoProbB = Undefined
  /\ monoProbB' = Estimate(monoObsB, monoTotal).probability
  /\ UNCHANGED <<monoTotal, monoObsA, monoObsB, monoProbA>>
  /\ UNCHANGED <<coreVars, erfVars, clsVars, appVars>>

NextMono == EstimateA \/ EstimateB

SpecMono == InitMono /\ [][NextMono]_vars

\* |observedGreater[i] - totalPairs[i]/2|, doubled.
Deviation(obs, i) == Abs(2 * obs[i] - monoTotal[i])

\* C4: for two histograms with identical totalPairs, if in every category
\* the first has |observedGreater - totalPairs/2| at least that of the
\* second, the probability of the first is at least that of the second.
C4_Monotone ==
  (/\ monoProbB # Undefined
   /\ \A i \in 0 .. 254 : Deviation(monoObsA, i) >= Deviation(monoObsB, i))
  => monoProbA >= monoProbB

\* The first histogram is strictly farther in one category and as far in the
\* other, and its probability is strictly greater.
C4_Witness ==
  /\ monoProbB # Undefined
  /\ \A i \in 0 .. 254 : Deviation(monoObsA, i) >= Deviation(monoObsB, i)
  /\ Deviation(monoObsA, 1) > Deviation(monoObsB, 1)
  /\ monoTotal[254] > 0
  /\ monoProbA > monoProbB

(***************************************************************************)
(* SpecApp: the handlers and callbacks of the App component                *)
(***************************************************************************)
\* The files whose type starts with "image/" are numbered 1 .. NumImages.
NumImages == 2
ImageFiles == 1 .. NumImages

\* Most FileReaders pending at once, and most analyses the model lets start
\* before one completes.
MaxReaders == 2
MaxRuns == 2

\* The pixels that the canvas returns for the image of file f: two pixels,
\* the first channel of the first one is 1 for odd f and 0 for even f.
FilePixels(f) ==
  [i \in 0 .. 7 |-> IF i = 0 THEN f % 2 ELSE IF i = 4 THEN 254 ELSE 7]

Message(st) ==
  IF st = "Suspicious"
  THEN "Suspicious: High probability of hidden LSB data detected."
  ELSE IF st = "Indeterminate"
  THEN "Indeterminate: Some statistical anomalies were found, but results are inconclusive."
  ELSE "Likely Clean: No significant statistical signs of LSB steganography found."

\* The result that image.onload publishes for the image loaded from src.
ResultFor(src) ==
  LET pr == analyzeLSB(FilePixels(src))
  IN  [probability |-> pr, message |-> Message(Classify(pr)),
       status |-> Classify(pr), image |-> src]

ErrInvalidType   == "Invalid file type. Please upload an image (e.g., PNG, BMP, JPEG)."
ErrNoCanvas      == "Canvas element not found."
ErrNoContext     == "Could not get canvas context."
ErrAnalysis      == "An error occurred during analysis. The image might be protected by CORS policy if loaded from a URL."
ErrImageLoad     == "Could not load the image for analysis."
AnalysisErrors   == {ErrNoCanvas, ErrNoContext, ErrAnalysis, ErrImageLoad}

Remove(seq, k) == [n \in 1 .. Len(seq) - 1 |-> IF n < k THEN seq[n] ELSE seq[n + 1]]

InitApp ==
  /\ AppIdle
  /\ CoreIdle /\ ErfIdle /\ ClsIdle /\ MonoIdle

\* handleFileChange with a file that is not an image.
FileChangeInvalid ==
  /\ error' = ErrInvalidType
  /\ selectedFile' = NoFile
  /\ imagePreview' = NoFile
  /\ result' = NoResult
  /\ UNCHANGED <<isLoading, readers, runs>>
  /\ UNCHANGED <<coreVars, erfVars, clsVars, monoVars>>

\* handleFileChange with image file f: a FileReader is started.
FileChangeImage(f) ==
  /\ Len(readers) < MaxReaders
  /\ selectedFile' = f
  /\ error' = Null
  /\ result' = NoResult
  /\ readers' = Append(readers, f)
  /\ UNCHANGED <<imagePreview, isLoading, runs>>
  /\ UNCHANGED <<coreVars, erfVars, clsVars, monoVars>>

\* reader.onloadend of the k-th pending FileReader, with the data URL.
ReaderLoadEnd(k) ==
  /\ k \in 1 .. Len(readers)
  /\ imagePreview' = readers[k]
  /\ readers' = Remove(readers, k)
  /\ UNCHANGED <<selectedFile, isLoading, result, error, runs>>
  /\ UNCHANGED <<coreVars, erfVars, clsVars, monoVars>>

\* reader.onloadend after a failed read: reader.result is null.
ReaderLoadEndFailed(k) ==
  /\ k \in 1 .. Len(readers)
  /\ imagePreview' = NoFile
  /\ readers' = Remove(readers, k)
  /\ UNCHANGED <<selectedFile, isLoading, result, error, runs>>
  /\ UNCHANGED <<coreVars, erfVars, clsVars, monoVars>>

\* A mutant of the button that stays enabled while loading.
ButtonDisabled_ignoresLoading == selectedFile = NoFile

\* disabled={!selectedFile || isLoading}
ButtonDisabled == selectedFile = NoFile \/ isLoading

\* A click on the enabled button: handleAnalyzeClick up to setTimeout.  The
\* timer callback closes over the imagePreview of this render.
AnalyzeClick ==
  /\ ~ButtonDisabled
  /\ ~(selectedFile = NoFile \/ imagePreview = NoFile)
  /\ Len(runs) < MaxRuns
  /\ isLoading' = TRUE
  /\ result' = NoResult
  /\ error' = Null
  /\ runs' = Append(runs, [stage |-> "timer", src |-> imagePreview])
  /\ UNCHANGED <<selectedFile, imagePreview, readers>>
  /\ UNCHANGED <<coreVars, erfVars, clsVars, monoVars>>

\* The 100 ms timer callback: the Image is created and its src is set.
TimerFired(k) ==
  /\ k \in 1 .. Len(runs)
  /\ runs[k].stage = "timer"
  /\ runs' = [runs EXCEPT ![k].stage = "loading"]
  /\ UNCHANGED <<selectedFile, imagePreview, isLoading, result, error,
                 readers>>
  /\ UNCHANGED <<coreVars, erfVars, clsVars, monoVars>>

\* An image callback that ends with setError(msg); setIsLoading(false).
Fail(k, msg) ==
  /\ k \in 1 .. Len(runs)
  /\ runs[k].stage = "loading"
  /\ error' = msg
  /\ isLoading' = FALSE
  /\ runs' = Remove(runs, k)
  /\ UNCHANGED <<selectedFile, imagePreview, result, readers>>
  /\ UNCHANGED <<coreVars, erfVars, clsVars, monoVars>>

\* image.onload when canvasRef.current is null.
OnloadCanvasMissing(k) == Fail(k, ErrNoCanvas)

\* image.onload when getContext returns null.
OnloadContextMissing(k) == Fail(k, ErrNoContext)

\* image.onload when getImageData or analyzeLSB throws: catch, finally.
OnloadThrows(k) == Fail(k, ErrAnalysis)

\* image.onerror.
Onerror(k) == Fail(k, ErrImageLoad)

\* image.onload on the success path: setResult, then finally.
OnloadAnalysed(k) ==
  /\ k \in 1 .. Len(runs)
  /\ runs[k].stage = "loading"
  /\ result' = ResultFor(runs[k].src)
  /\ isLoading' = FALSE
  /\ runs' = Remove(runs, k)
  /\ UNCHANGED <<selectedFile, imagePreview, error, readers>>
  /\ UNCHANGED <<coreVars, erfVars, clsVars, monoVars>>

TimerFires == \E k \in 1 .. MaxRuns : TimerFired(k)

ImageSettles ==
  \E k \in 1 .. MaxRuns :
    \/ OnloadCanvasMissing(k)
    \/ OnloadContextMissing(k)
    \/ OnloadThrows(k)
    \/ OnloadAnalysed(k)
    \/ Onerror(k)

NextApp ==
  \/ FileChangeInvalid
  \/ \E f \in ImageFiles : FileChangeImage(f)
  \/ \E k \in 1 .. MaxReaders : ReaderLoadEnd(k)
  \/ \E k \in 1 .. MaxReaders : ReaderLoadEndFailed(k)
  \/ AnalyzeClick
  \/ TimerFires
  \/ ImageSettles

SpecApp == InitApp /\ [][NextApp]_vars

\* The timer fires and the image fires onload or onerror.
SpecAppFair == SpecApp /\ WF_vars(TimerFires) /\ WF_vars(ImageSettles)

\* C9 as stated: whenever result is non-null it was computed from the image
\* of the currently selected file, and it does not stand next to an error.
C9_ResultIsOfSelectedFile ==
  result # NoResult =>
    /\ result.image = selectedFile
    /\ error = Null

\* C10: every analysis started by handleAnalyzeClick sets isLoading and
\* clears result and error; it eventually sets isLoading back to false, and
\* the step that does so sets exactly one of result and error, on every
\* path; while isLoading is true the button is disabled and at most one
\* analysis is in flight.
C10_EveryAnalysisCompletes ==
  /\ [](Len(runs) <= 1)
  /\ [](isLoading <=> runs # <<>>)
  /\ [](isLoading => ButtonDisabled)
  /\ (isLoading ~> ~isLoading)
  /\ [][Len(runs') > Len(runs) =>
          (isLoading' /\ result' = NoResult /\ error' = Null)]_vars
  /\ [][Len(runs') < Len(runs) =>
          /\ ~isLoading'
          /\ (result' # NoResult) # (error' \in AnalysisErrors)
          /\ (result' # NoResult => (result = NoResult /\ error' = error))
          /\ (error' \in AnalysisErrors => result' = result)]_vars

\* An analysis has completed on the success path.
C10_Witness ==
  /\ ~isLoading
  /\ runs = <<>>
  /\ result # NoResult /\ result.status = "Indeterminate"
  /\ error = Null

=============================================================================
